---- MODULE Spec2Model ----
(***************************************************************************)
(* The parse-email endpoint of CovertFilm/ai-checklist                     *)
(* (src/api/parse-email.js): the Netlify handler (exports.handler, lines   *)
(* 3-238) and the Vercel handler (handler, lines 241-432).                 *)
(*                                                                         *)
(* A text is a sequence of UTF-16 code units.  An ASCII code unit is the   *)
(* one-character string holding it; any other code unit is written by its  *)
(* code point, "U+2013".  JavaScript values are records of one shape,      *)
(* [k, s, n, a, m]: the kind, and the payload of a string (s), a number    *)
(* (n), an array (a) or an object (m, the members in order).               *)
(***************************************************************************)
EXTENDS Integers, Sequences, FiniteSets, TLC

\* ------------------------------------------------------------------ texts

RECURSIVE Concat(_)
\* The concatenation of a sequence of texts.
Concat(ts) == IF ts = <<>> THEN <<>> ELSE Head(ts) \o Concat(Tail(ts))

RECURSIVE Join(_, _)
\* Array.prototype.join: the texts of ts with sep between them.
Join(ts, sep) ==
    IF ts = <<>> THEN <<>>
    ELSE IF Len(ts) = 1 THEN ts[1]
    ELSE ts[1] \o sep \o Join(Tail(ts), sep)

RECURSIVE Repeat(_, _)
Repeat(x, n) == IF n = 0 THEN <<>> ELSE <<x>> \o Repeat(x, n - 1)

Min(S) == CHOOSE x \in S : \A y \in S : x <= y
Max(S) == CHOOSE x \in S : \A y \in S : y <= x

\* \s of a JavaScript regular expression, and the white space trim() removes.
IsSpace(c) == c \in {" ", "\n", "\t", "\r"}

LowerLetters ==
    {"a", "b", "c", "d", "e", "f", "g", "h", "i", "j", "k", "l", "m",
     "n", "o", "p", "q", "r", "s", "t", "u", "v", "w", "x", "y", "z"}
UpperLetters == {"A", "G", "I", "N", "P", "V"}
Digits == {"0", "1", "2", "3", "4", "5", "6", "7", "8", "9"}

\* \w of a JavaScript regular expression: [A-Za-z0-9_].
IsWord(c) == c \in LowerLetters \cup UpperLetters \cup Digits \cup {"_"}

\* String.prototype.toLowerCase, one code unit.
LowerOf(c) ==
    CASE c = "A" -> "a" [] c = "G" -> "g" [] c = "I" -> "i"
      [] c = "N" -> "n" [] c = "P" -> "p" [] c = "V" -> "v"
      [] OTHER -> c

toLowerCase(t) == [i \in 1..Len(t) |-> LowerOf(t[i])]

\* String.prototype.trim.
trim(t) ==
    LET keep == {i \in 1..Len(t) : ~IsSpace(t[i])}
    IN  IF keep = {} THEN <<>> ELSE SubSeq(t, Min(keep), Max(keep))

\* Where lit occurs in t, at or after from.
Occurrences(t, lit, from) ==
    {i \in from..(Len(t) - Len(lit) + 1) : SubSeq(t, i, i + Len(lit) - 1) = lit}

\* String.prototype.includes.
includes(t, lit) == Occurrences(t, lit, 1) # {}

RECURSIVE RemoveMarkerFrom(_, _, _)
\* t from position from on, with every match of /lit\n?/g removed: the
\* matches are taken leftmost first and do not overlap.
RemoveMarkerFrom(t, lit, from) ==
    LET occ == Occurrences(t, lit, from)
    IN  IF occ = {} THEN SubSeq(t, from, Len(t))
        ELSE LET i == Min(occ)
                 e == i + Len(lit)
                 nx == IF e <= Len(t) /\ t[e] = "\n" THEN e + 1 ELSE e
             IN  SubSeq(t, from, i - 1) \o RemoveMarkerFrom(t, lit, nx)

\* The grave accent, which a string of this language cannot hold.
Backtick == "U+0060"
Backticks == <<Backtick, Backtick, Backtick>>
JsonTag == <<"j", "s", "o", "n">>

\* aiResponse.replace(/<fence>json\n?/g, ''), <fence> being three backticks
RemoveJsonFences(t) == RemoveMarkerFrom(t, Backticks \o JsonTag, 1)

\* The same without the g flag: the first match alone is removed.
RemoveFences_FirstOnly(t) ==
    LET occ == Occurrences(t, Backticks, 1)
        e == Min(occ) + Len(Backticks)
        nx == IF e <= Len(t) /\ t[e] = "\n" THEN e + 1 ELSE e
    IN  IF occ = {} THEN t
        ELSE SubSeq(t, 1, Min(occ) - 1) \o SubSeq(t, nx, Len(t))

\* .replace(/<fence>\n?/g, '')
RemoveFences(t) == RemoveMarkerFrom(t, Backticks, 1)

\* The two replacements of the clean-up, one after the other.
StripFences(aiResponse) == RemoveFences(RemoveJsonFences(aiResponse))

\* The clean-up of the reply before the strict parse.
cleanResponse(aiResponse) == trim(StripFences(aiResponse))

RECURSIVE split(_, _)
\* String.prototype.split with a one-unit separator.
split(t, sep) ==
    LET at == {i \in 1..Len(t) : t[i] = sep}
    IN  IF at = {} THEN <<t>>
        ELSE <<SubSeq(t, 1, Min(at) - 1)>>
                 \o split(SubSeq(t, Min(at) + 1, Len(t)), sep)

\* line.replace(/[^\w\s]/g, '')
StripNonWord(t) == SelectSeq(t, LAMBDA c : IsWord(c) \/ IsSpace(c))

\* line.match(/^[^\w\s]/): whether the line opens with a unit that is neither
\* a word character nor white space.
HasLeadSymbol(line) == line # <<>> /\ ~IsWord(line[1]) /\ ~IsSpace(line[1])

RECURSIVE DropSpaces(_)
DropSpaces(t) ==
    IF t # <<>> /\ IsSpace(Head(t)) THEN DropSpaces(Tail(t)) ELSE t

\* line.replace(/^[^\w\s]\s*/, '')
DropLeadSymbol(line) ==
    IF HasLeadSymbol(line) THEN DropSpaces(Tail(line)) ELSE line

\* ------------------------------------------------------ JavaScript values

Value(kind, s, n, a, m) == [k |-> kind, s |-> s, n |-> n, a |-> a, m |-> m]
Undefined == Value("undefined", <<>>, 0, <<>>, <<>>)
Null == Value("null", <<>>, 0, <<>>, <<>>)
True == Value("true", <<>>, 0, <<>>, <<>>)
False == Value("false", <<>>, 0, <<>>, <<>>)
StrV(t) == Value("string", t, 0, <<>>, <<>>)
NumV(n) == Value("number", <<>>, n, <<>>, <<>>)
ArrV(a) == Value("array", <<>>, 0, a, <<>>)
\* An object: its members, each <<key, value>>, in the order written.
ObjV(m) == Value("object", <<>>, 0, <<>>, m)

\* ToBoolean: what "!x" and "x || y" test.
Truthy(v) ==
    CASE v.k \in {"undefined", "null", "false"} -> FALSE
      [] v.k = "string" -> v.s # <<>>
      [] v.k = "number" -> v.n # 0
      [] OTHER -> TRUE

\* Whether reading a property of v throws a TypeError.
GetThrows(v) == v.k \in {"undefined", "null"}

\* v[key] for the keys the handlers read, none of which a string, a number,
\* a boolean or an array has.  Of an object's members of one key the last
\* one written stands, as JSON.parse leaves it.
Get(v, key) ==
    LET at == IF v.k = "object"
              THEN {i \in 1..Len(v.m) : v.m[i][1] = key}
              ELSE {}
    IN  IF at = {} THEN Undefined ELSE v.m[Max(at)][2]

\* Array.isArray
isArray(v) == v.k = "array"

\* -------------------------------------------------------------- JSON.parse
\* JSON.parse on the texts of this model: white space, null, true, false,
\* the non-negative integers, strings without escapes, arrays and objects.

Failed == [ok |-> FALSE, v |-> Undefined, nx |-> 0]
Parsed(v, nx) == [ok |-> TRUE, v |-> v, nx |-> nx]

RECURSIVE SkipWs(_, _)
\* The first position at or after i that holds no JSON white space.
SkipWs(t, i) ==
    IF i <= Len(t) /\ IsSpace(t[i]) THEN SkipWs(t, i + 1) ELSE i

RECURSIVE StringEnd(_, _)
\* The position of the quote closing the string whose content starts at i;
\* 0 when the string is not closed, or holds a control character or an
\* escape (no text of this model holds a valid one).
StringEnd(t, i) ==
    IF i > Len(t) THEN 0
    ELSE IF t[i] = "\"" THEN i
    ELSE IF t[i] \in {"\n", "\t", "\r", "\\"} THEN 0
    ELSE StringEnd(t, i + 1)

ParseString(t, i) ==
    LET e == IF i <= Len(t) /\ t[i] = "\"" THEN StringEnd(t, i + 1) ELSE 0
    IN  IF e = 0 THEN Failed ELSE Parsed(StrV(SubSeq(t, i + 1, e - 1)), e + 1)

ParseLiteral(t, i, lit, v) ==
    IF i + Len(lit) - 1 <= Len(t) /\ SubSeq(t, i, i + Len(lit) - 1) = lit
    THEN Parsed(v, i + Len(lit))
    ELSE Failed

DigitValue(c) == CHOOSE n \in 0..9 : ToString(n) = c

RECURSIVE NumberFrom(_, _, _)
\* The digits from i on, after the value acc of those before them.
NumberFrom(t, i, acc) ==
    IF i <= Len(t) /\ t[i] \in Digits
    THEN NumberFrom(t, i + 1, 10 * acc + DigitValue(t[i]))
    ELSE Parsed(NumV(acc), i)

\* A JSON number: no sign, fraction or exponent here, and no leading zero.
ParseNumber(t, i) ==
    IF t[i] = "0" /\ i < Len(t) /\ t[i + 1] \in Digits THEN Failed
    ELSE NumberFrom(t, i, 0)

RECURSIVE ParseValue(_, _)
RECURSIVE ParseElements(_, _, _)
RECURSIVE ParseMembers(_, _, _)

\* The elements of an array from i on, after those of acc, to the "]".
ParseElements(t, i, acc) ==
    LET r == ParseValue(t, i)
        j == SkipWs(t, r.nx)
    IN  IF ~r.ok \/ j > Len(t) THEN Failed
        ELSE IF t[j] = "," THEN ParseElements(t, j + 1, Append(acc, r.v))
        ELSE IF t[j] = "]" THEN Parsed(ArrV(Append(acc, r.v)), j + 1)
        ELSE Failed

\* The members of an object from i on, after those of acc, to the "}".
ParseMembers(t, i, acc) ==
    LET key == ParseString(t, SkipWs(t, i))
        c == SkipWs(t, key.nx)
        r == ParseValue(t, c + 1)
        j == SkipWs(t, r.nx)
    IN  IF ~key.ok \/ c > Len(t) THEN Failed
        ELSE IF t[c] # ":" THEN Failed
        ELSE IF ~r.ok \/ j > Len(t) THEN Failed
        ELSE IF t[j] = ","
             THEN ParseMembers(t, j + 1, Append(acc, <<key.v.s, r.v>>))
        ELSE IF t[j] = "}"
             THEN Parsed(ObjV(Append(acc, <<key.v.s, r.v>>)), j + 1)
        ELSE Failed

\* The JSON value that starts at or after i.
ParseValue(t, i) ==
    LET j == SkipWs(t, i)
        k == SkipWs(t, j + 1)
    IN  IF j > Len(t) THEN Failed
        ELSE IF t[j] = "{"
             THEN IF k <= Len(t) /\ t[k] = "}" THEN Parsed(ObjV(<<>>), k + 1)
                  ELSE ParseMembers(t, j + 1, <<>>)
        ELSE IF t[j] = "["
             THEN IF k <= Len(t) /\ t[k] = "]" THEN Parsed(ArrV(<<>>), k + 1)
                  ELSE ParseElements(t, j + 1, <<>>)
        ELSE IF t[j] = "\"" THEN ParseString(t, j)
        ELSE IF t[j] = "n" THEN ParseLiteral(t, j, <<"n", "u", "l", "l">>, Null)
        ELSE IF t[j] = "t" THEN ParseLiteral(t, j, <<"t", "r", "u", "e">>, True)
        ELSE IF t[j] = "f"
             THEN ParseLiteral(t, j, <<"f", "a", "l", "s", "e">>, False)
        ELSE IF t[j] \in Digits THEN ParseNumber(t, j)
        ELSE Failed

\* JSON.parse(t): ok is FALSE where it throws a SyntaxError.
JSONparse(t) ==
    LET r == ParseValue(t, 1)
    IN  IF r.ok /\ SkipWs(t, r.nx) > Len(t) THEN r ELSE Failed

\* ---------------------------------------------------------- JSON written
\* What the other side of a connection writes: the JSON text of a value.

Quoted(t) == <<"\"">> \o t \o <<"\"">>

RECURSIVE NumberText(_)
NumberText(n) ==
    IF n < 10 THEN <<ToString(n)>>
    ELSE NumberText(n \div 10) \o <<ToString(n % 10)>>

RECURSIVE JsonText(_, _)
\* The JSON text of v, its arrays and objects written with sep after each
\* opening bracket and each comma.
JsonText(v, sep) ==
    CASE v.k = "null" -> <<"n", "u", "l", "l">>
      [] v.k = "true" -> <<"t", "r", "u", "e">>
      [] v.k = "false" -> <<"f", "a", "l", "s", "e">>
      [] v.k = "string" -> Quoted(v.s)
      [] v.k = "number" -> NumberText(v.n)
      [] v.k = "array" ->
           <<"[">> \o sep
             \o Join([i \in 1..Len(v.a) |-> JsonText(v.a[i], sep)],
                     <<",">> \o sep)
             \o <<"]">>
      [] v.k = "object" ->
           <<"{">> \o sep
             \o Join([i \in 1..Len(v.m) |->
                         Quoted(v.m[i][1]) \o <<":">>
                             \o JsonText(v.m[i][2], sep)],
                     <<",">> \o sep)
             \o <<"}">>

\* ----------------------------------------------------------- the handlers

Platforms == {"netlify", "vercel"}

\* The limit of .slice(0, 20).
MaxTasks == 20

\* The literal of the first line.includes(...): the UTF-8 bytes of an en
\* dash read in another encoding, three code units in either file.
EnDashLiteral(platform) ==
    IF platform = "netlify" THEN <<"U+201A", "U+00C4", "U+00EC">>
    ELSE <<"U+00E2", "U+20AC", "U+201C">>

\* The placeholder emoji, a literal of four and of three code units.
PlaceholderEmoji(platform) ==
    IF platform = "netlify" THEN <<"U+F8FF", "U+00FC", "U+00EC", "U+00F9">>
    ELSE <<"U+011F", "U+0178", "U+201C">>

\* 'AI Generated Project'
PlaceholderName ==
    <<"A", "I", " ", "G", "e", "n", "e", "r", "a", "t", "e", "d", " ",
      "P", "r", "o", "j", "e", "c", "t">>

K_tasks == <<"t", "a", "s", "k", "s">>
K_text == <<"t", "e", "x", "t">>
K_emoji == <<"e", "m", "o", "j", "i">>
K_projectName ==
    <<"p", "r", "o", "j", "e", "c", "t", "N", "a", "m", "e">>
K_emailContent ==
    <<"e", "m", "a", "i", "l", "C", "o", "n", "t", "e", "n", "t">>

\* A response: the status code and the body, which is empty (kind "empty"),
\* { error } (kind "error") or { projectName, tasks, originalTaskCount }
\* (kind "result").
Response(status, kind, error, projectName, tasks, count) ==
    [statusCode |-> status, kind |-> kind, error |-> error,
     projectName |-> projectName, tasks |-> tasks,
     originalTaskCount |-> count]
NoResponse == Response(0, "none", "", Undefined, <<>>, 0)
Empty(status) == Response(status, "empty", "", Undefined, <<>>, 0)
Error(status, message) == Response(status, "error", message, Undefined, <<>>, 0)
Result(projectName, tasks, count) ==
    Response(200, "result", "", projectName, tasks, count)

E_Method == "Method not allowed"
E_Content == "Email content is required"
E_Key == "OpenAI API key not configured"
E_Failed == "Failed to parse email with AI"
E_InvalidKey == "Invalid OpenAI API key"
E_RateLimit == "OpenAI API rate limit exceeded. Please try again in a moment."
E_Denied == "OpenAI API access denied. Please check your API key permissions."
E_NoResponse == "No response from AI"
E_Format ==
    "AI response format was invalid. Please try again or check your email format."
E_NoTasks ==
    "No actionable tasks found in the email. Please check the content and try again."
E_Internal == "Internal server error. Please try again."

\* The outermost catch.
InternalError == Error(500, E_Internal)

\* The task-like test of a line of the fallback.
IsTaskLike(line, platform) ==
    \/ includes(line, EnDashLiteral(platform))
    \/ includes(line, <<"-">>)
    \/ includes(line, <<":">>)

\* The task a task-like line gives; its text may be empty.
LineTask(line, platform) ==
    ObjV(<< <<K_emoji, StrV(IF HasLeadSymbol(line) THEN <<line[1]>>
                            ELSE PlaceholderEmoji(platform))>>,
            <<K_text, StrV(trim(DropLeadSymbol(line)))>> >>)

RECURSIVE FallbackLoop(_, _, _, _, _)
\* for (const line of lines), from line i on.
FallbackLoop(lines, i, tasks, projectName, platform) ==
    IF i > Len(lines)
    THEN ObjV(<< <<K_projectName, StrV(projectName)>>,
                 <<K_tasks, ArrV(tasks)>> >>)
    ELSE LET line == lines[i]
             task == LineTask(line, platform)
             pushed == IF IsTaskLike(line, platform)
                          /\ Truthy(Get(task, K_text))
                       THEN Append(tasks, task)
                       ELSE tasks
             named == IF includes(toLowerCase(line),
                                  <<"p", "r", "o", "j", "e", "c", "t">>)
                         /\ projectName = PlaceholderName
                      THEN trim(StripNonWord(line))
                      ELSE projectName
         IN  FallbackLoop(lines, i + 1, pushed, named, platform)

\* The catch of the strict parse: tasks taken from the lines of the reply.
Fallback(aiResponse, platform) ==
    LET lines == SelectSeq(split(aiResponse, "\n"),
                           LAMBDA line : trim(line) # <<>>)
    IN  FallbackLoop(lines, 1, <<>>, PlaceholderName, platform)

\* parsedResponse: the strict parse of the cleaned reply, or the fallback.
parsedResponse(aiResponse, platform) ==
    LET strict == JSONparse(cleanResponse(aiResponse))
    IN  IF strict.ok THEN strict.v ELSE Fallback(aiResponse, platform)

\* Whether the filter's test of a task, task.text && task.text.trim(),
\* throws: the task has no properties, or its text is truthy and no string.
FilterThrows(task) ==
    \/ GetThrows(task)
    \/ Truthy(Get(task, K_text)) /\ Get(task, K_text).k # "string"

\* The test without the trim: task.text alone.
FilterKeeps_NoTrim(task) == Truthy(Get(task, K_text))

\* task.text && task.text.trim()
FilterKeeps(task) ==
    /\ Truthy(Get(task, K_text))
    /\ trim(Get(task, K_text).s) # <<>>

\* The map without the trim of the text.
CleanTask_NoTrim(task, platform) ==
    [emoji |-> IF Truthy(Get(task, K_emoji)) THEN Get(task, K_emoji)
               ELSE StrV(PlaceholderEmoji(platform)),
     text |-> Get(task, K_text).s]

\* The map: a task in the shape the response carries.
CleanTask(task, platform) ==
    [emoji |-> IF Truthy(Get(task, K_emoji)) THEN Get(task, K_emoji)
               ELSE StrV(PlaceholderEmoji(platform)),
     text |-> trim(Get(task, K_text).s)]

\* The slice with its end one too far: .slice(0, 21).
Slice_OneMore(ts) ==
    SubSeq(ts, 1, IF Len(ts) < MaxTasks + 1 THEN Len(ts) ELSE MaxTasks + 1)

\* .slice(0, 20)
Slice(ts) == SubSeq(ts, 1, IF Len(ts) < MaxTasks THEN Len(ts) ELSE MaxTasks)

\* cleanTasks of an array of tasks none of which throws.
cleanTasks(candidates, platform) ==
    LET kept == SelectSeq(candidates, FilterKeeps)
    IN  Slice([i \in 1..Len(kept) |-> CleanTask(kept[i], platform)])

\* The count taken after the filter: the tasks kept, before the slice.
originalTaskCount_AfterFilter(parsed) ==
    Len(SelectSeq(Get(parsed, K_tasks).a, FilterKeeps))

\* parsedResponse.tasks.length
originalTaskCount(parsed) == Len(Get(parsed, K_tasks).a)

\* The handler from "Validate the response structure" to its end.
Respond(parsed, platform) ==
    LET tasks == Get(parsed, K_tasks)
        name == Get(parsed, K_projectName)
    IN  IF GetThrows(parsed) THEN InternalError
        ELSE IF ~Truthy(tasks) \/ ~isArray(tasks) THEN Error(500, E_Format)
        ELSE IF \E i \in 1..Len(tasks.a) : FilterThrows(tasks.a[i])
             THEN InternalError
        ELSE IF cleanTasks(tasks.a, platform) = <<>> THEN Error(400, E_NoTasks)
        ELSE Result(IF Truthy(name) THEN name ELSE StrV(PlaceholderName),
                    cleanTasks(tasks.a, platform),
                    originalTaskCount(parsed))

\* The handler from the reply's content on.
Normalize(aiResponse, platform) ==
    Respond(parsedResponse(aiResponse, platform), platform)

\* errorMessage without the branch of 403.
errorMessage_NoDenied(status) ==
    CASE status = 401 -> E_InvalidKey
      [] status = 429 -> E_RateLimit
      [] OTHER -> E_Failed

\* errorMessage of a reply that is not ok.
errorMessage(status) ==
    CASE status = 401 -> E_InvalidKey
      [] status = 429 -> E_RateLimit
      [] status = 403 -> E_Denied
      [] OTHER -> E_Failed

\* response.ok
IsOk(status) == status \in 200..299

\* The request body as the handler reads it.  Netlify hands over the text,
\* and the handler runs JSON.parse(event.body); Vercel hands over req.body,
\* the value its own parse of the text gave.  Destructuring the value of
\* either throws when there is none, or it is null.
BodyValue(request) ==
    IF request.hasBody THEN JSONparse(request.body) ELSE Failed

BodyThrows(request) ==
    ~BodyValue(request).ok \/ GetThrows(BodyValue(request).v)

emailContent(request) == Get(BodyValue(request).v, K_emailContent)

\* The test of the key as "=== null", which an unset variable passes.
KeyMissing_NullOnly(openaiApiKey) == openaiApiKey.k = "null"

\* !openaiApiKey
KeyMissing(openaiApiKey) == ~Truthy(openaiApiKey)

\* The handler from its entry to the call of fetch: the response it returns
\* before the call, or NoResponse where it makes the call.
Gate(request, openaiApiKey) ==
    IF request.httpMethod = "OPTIONS" THEN Empty(200)
    ELSE IF request.httpMethod # "POST" THEN Error(405, E_Method)
    ELSE IF BodyThrows(request) THEN InternalError
    ELSE IF ~Truthy(emailContent(request)) THEN Error(400, E_Content)
    ELSE IF emailContent(request).k # "string" THEN InternalError
    ELSE IF trim(emailContent(request).s) = <<>> THEN Error(400, E_Content)
    ELSE IF KeyMissing(openaiApiKey) THEN Error(500, E_Key)
    ELSE NoResponse

\* The handler from the reply of fetch on.
AfterFetch(upstream, platform) ==
    IF ~IsOk(upstream.status)
    THEN Error(upstream.status, errorMessage(upstream.status))
    ELSE IF upstream.kind = "notjson" THEN InternalError
    ELSE IF upstream.kind = "nochoices" \/ upstream.content = <<>>
         THEN Error(500, E_NoResponse)
    ELSE Normalize(upstream.content, platform)

\* ------------------------------------------------------- the environment
\* The requests a caller sends and the replies the completion service
\* gives, drawn from the sets below.

MaxPrefix == 2
MaxOver == 1
MaxLines == 2
MaxPieces == 3

RECURSIVE SeqsUpTo(_, _)
\* The sequences over S of length at most n.
SeqsUpTo(S, n) ==
    IF n = 0 THEN {<<>>}
    ELSE LET shorter == SeqsUpTo(S, n - 1)
         IN  shorter \cup {Append(q, x) : q \in shorter, x \in S}

\* An object of the members whose value is defined.
ObjOf(members) == ObjV(SelectSeq(members, LAMBDA kv : kv[2] # Undefined))

TaskOf(emoji, text) == ObjOf(<< <<K_emoji, emoji>>, <<K_text, text>> >>)

Star == StrV(<<"*">>)

\* The elements a reply's tasks array is made of: a task as asked for; one
\* without emoji, with an empty one; a text to trim, a blank, an empty, an
\* absent one; one that holds a fence marker; an element that is null, one
\* that is a string, and a task whose text is a number.
TaskKinds ==
    {TaskOf(Star, StrV(<<"a">>)),
     TaskOf(Undefined, StrV(<<"b">>)),
     TaskOf(StrV(<<>>), StrV(<<"c">>)),
     TaskOf(Star, StrV(<<" ", "d", " ">>)),
     TaskOf(Star, StrV(<<" ">>)),
     TaskOf(Star, StrV(<<>>)),
     TaskOf(Star, Undefined),
     TaskOf(Star, StrV(<<"g">> \o Backticks \o <<"h">>)),
     Null,
     StrV(<<"s">>),
     TaskOf(Star, NumV(5))}

Filler == TaskOf(Star, StrV(<<"f">>))

\* How many fillers a long array or a long reply of lines holds: enough to
\* reach the limit of MaxTasks, alone or with one more element, and to pass
\* it by MaxOver.
FillCounts == (MaxTasks - 1)..(MaxTasks + MaxOver - 1)

ShortArrays == SeqsUpTo(TaskKinds, MaxPrefix)

\* The arrays of a reply: the short ones, and the fillers with nothing or
\* one element before or after them.
TaskArrays ==
    ShortArrays
        \cup {q \o Repeat(Filler, n) : q \in SeqsUpTo(TaskKinds, 1),
                                      n \in FillCounts}
        \cup {Repeat(Filler, n) \o q : q \in SeqsUpTo(TaskKinds, 1),
                                      n \in FillCounts}

ProjectNames == {Undefined, StrV(<<>>), StrV(<<"V", "i", "d", "e", "o">>)}

DocOf(name, tasks) == ObjOf(<< <<K_projectName, name>>, <<K_tasks, tasks>> >>)

\* The JSON values of a reply: objects with a tasks array, objects whose
\* tasks is absent or no array, and values that are no object.
Docs ==
    {DocOf(StrV(<<"V">>), ArrV(a)) : a \in TaskArrays}
        \cup {DocOf(n, ArrV(a)) : n \in ProjectNames,
                                  a \in SeqsUpTo(TaskKinds, 1)}
        \cup {DocOf(n, t) : n \in ProjectNames,
                            t \in {Undefined, Null, NumV(0), NumV(3), True,
                                   StrV(<<"x">>), ObjV(<<>>)}}
        \cup {Null, True, NumV(7), StrV(<<"h", "i">>), ArrV(<<>>),
              ArrV(<<Filler>>)}

\* The fence a reply opens and closes with.
Opens ==
    {Backticks \o JsonTag \o <<"\n">>, Backticks \o JsonTag,
     Backticks \o <<"\n">>, Backticks}
Closes == {<<"\n">> \o Backticks, Backticks}

\* The lines of a reply that is no JSON.
LineKinds ==
    {<<"-", " ", "a">>,
     <<"*", "1", ":", "b">>,
     <<"c", " ", "U+2013", " ", "d">>,
     <<"e">>,
     <<"-">>,
     <<" ">>,
     <<" ", "-", "g", " ">>,
     <<"P", "r", "o", "j", "e", "c", "t", ":", " ", "V">>,
     <<"U+D83C", "U+DFB5", " ", "h", "-", "i">>}

FillerLine == <<"*", " ", "0", ":", "f">>

ShortLines == SeqsUpTo(LineKinds, MaxLines)

LineLists ==
    ShortLines
        \cup {q \o Repeat(FillerLine, n) : q \in SeqsUpTo(LineKinds, 1),
                                          n \in FillCounts}

\* The pieces of a reply made of fence markers and little else.
Pieces == {<<Backtick>>, Backticks, JsonTag, <<"\n">>, <<"x">>}

\* What the model wrote: a JSON value in a layout and a fence (form
\* "json"), one cut short (form "cut"), lines (form "lines") or pieces
\* (form "pieces").
Output(form, doc, sep, open, close, lines) ==
    [form |-> form, doc |-> doc, sep |-> sep, open |-> open,
     close |-> close, lines |-> lines]
NoOutput == Output("none", Undefined, <<>>, <<>>, <<>>, <<>>)

Outputs ==
    {Output("json", d, <<>>, <<>>, <<>>, <<>>) : d \in Docs}
        \cup {Output("json", d, sep, open, close, <<>>) :
                d \in {DocOf(n, ArrV(a)) : n \in ProjectNames,
                                           a \in SeqsUpTo(TaskKinds, 1)}
                      \cup {DocOf(StrV(<<"V">>), ArrV(Repeat(Filler, n))) :
                              n \in FillCounts}
                      \cup {Null, NumV(7), StrV(<<"h", "i">>)},
                sep \in {<<>>, <<"\n">>},
                open \in Opens \cup {<<>>},
                close \in Closes \cup {<<>>}}
        \cup {Output("cut", DocOf(Undefined, ArrV(a)), <<"\n">>, <<>>, <<>>,
                     <<>>) : a \in SeqsUpTo(TaskKinds, 1)}
        \cup {Output("lines", Undefined, <<>>, <<>>, <<>>, ls) :
                ls \in LineLists \ {<<>>}}
        \cup {Output("pieces", Undefined, <<>>, <<>>, <<>>, ps) :
                ps \in SeqsUpTo(Pieces, MaxPieces)}

\* The JSON text of an output, without its fence.
Enclosed(o) == JsonText(o.doc, o.sep)

\* The text of an output: the content of the reply.
Render(o) ==
    CASE o.form = "json" -> o.open \o Enclosed(o) \o o.close
      [] o.form = "cut" -> SubSeq(Enclosed(o), 1, Len(Enclosed(o)) - 1)
      [] o.form = "lines" -> Join(o.lines, <<"\n">>)
      [] OTHER -> Concat(o.lines)

Methods == {"POST", "OPTIONS", "GET"}

Hi == StrV(<<"h", "i">>)

\* The bodies of a request: none, texts that are no JSON, and the JSON of
\* values with and without an emailContent.
Bodies ==
    {[hasBody |-> FALSE, body |-> <<>>],
     [hasBody |-> TRUE, body |-> <<>>],
     [hasBody |-> TRUE, body |-> <<"h", "i">>]}
        \cup {[hasBody |-> TRUE, body |-> JsonText(v, <<>>)] :
                v \in {ObjOf(<< <<K_emailContent, c>> >>) :
                         c \in {Hi, StrV(<<" ", "\n">>), StrV(<<>>), Undefined,
                                Null, NumV(0), NumV(5), False, True,
                                ArrV(<<>>)}}
                      \cup {Null, NumV(7), Hi, ArrV(<<>>)}}

Requests ==
    {[httpMethod |-> m, hasBody |-> b.hasBody, body |-> b.body] :
        m \in Methods, b \in Bodies}

\* process.env.OPENAI_API_KEY: unset, empty or set.
Keys == {Undefined, StrV(<<>>), StrV(<<"s", "k">>)}

ErrorStatuses == {400, 401, 403, 404, 429, 500, 503}

Upstream(status, kind, content) ==
    [status |-> status, kind |-> kind, content |-> content]
NoUpstream == Upstream(0, "none", <<>>)

\* ----------------------------------------------------- the state machine

VARIABLES
    platform,        \* which of the two handlers serves the request
    request,         \* the request
    OPENAI_API_KEY,  \* process.env.OPENAI_API_KEY
    pc,              \* "idle", "awaiting" (in fetch), "received", "done"
    calls,           \* the calls of fetch made
    modelOutput,     \* what the model wrote, where it replied
    upstream,        \* the reply of fetch
    response         \* the response returned

vars ==
    <<platform, request, OPENAI_API_KEY, pc, calls, modelOutput, upstream,
      response>>

Init ==
    /\ platform \in Platforms
    /\ request \in Requests
    /\ OPENAI_API_KEY \in Keys
    /\ pc = "idle"
    /\ calls = 0
    /\ modelOutput = NoOutput
    /\ upstream = NoUpstream
    /\ response = NoResponse

\* The handler runs to its first return, or to the call of fetch.
Invoke ==
    /\ pc = "idle"
    /\ LET early == Gate(request, OPENAI_API_KEY)
       IN  IF early = NoResponse
           THEN /\ pc' = "awaiting"
                /\ calls' = calls + 1
                /\ UNCHANGED response
           ELSE /\ pc' = "done"
                /\ response' = early
                /\ UNCHANGED calls
    /\ UNCHANGED <<platform, request, OPENAI_API_KEY, modelOutput, upstream>>

\* The service answers with an error status.
UpstreamFails ==
    /\ pc = "awaiting"
    /\ \E status \in ErrorStatuses :
          upstream' = Upstream(status, "error", <<>>)
    /\ pc' = "received"
    /\ UNCHANGED <<platform, request, OPENAI_API_KEY, calls, modelOutput,
                   response>>

\* The service answers 200: with a body that is no JSON, with one that has
\* no choices, or with the content the model wrote.
UpstreamReplies ==
    /\ pc = "awaiting"
    /\ \/ /\ \E kind \in {"notjson", "nochoices"} :
                upstream' = Upstream(200, kind, <<>>)
          /\ UNCHANGED modelOutput
       \/ \E o \in Outputs :
             /\ modelOutput' = o
             /\ upstream' = Upstream(200, "content", Render(o))
    /\ pc' = "received"
    /\ UNCHANGED <<platform, request, OPENAI_API_KEY, calls, response>>

\* fetch rejects: the outermost catch answers.
FetchRejects ==
    /\ pc = "awaiting"
    /\ pc' = "done"
    /\ response' = InternalError
    /\ UNCHANGED <<platform, request, OPENAI_API_KEY, calls, modelOutput,
                   upstream>>

\* The handler resumes with the reply and runs to its return.
Resume ==
    /\ pc = "received"
    /\ pc' = "done"
    /\ response' = AfterFetch(upstream, platform)
    /\ UNCHANGED <<platform, request, OPENAI_API_KEY, calls, modelOutput,
                   upstream>>

Next == Invoke \/ UpstreamFails \/ UpstreamReplies \/ FetchRejects \/ Resume

Spec == Init /\ [][Next]_vars

\* ------------------------------------------------------------ properties

\* The request is a POST whose emailContent is missing or blank: no body, a
\* body that is no JSON or no object, an emailContent that is absent, no
\* string, or blank once trimmed.
ContentMissing ==
    LET body == JSONparse(request.body)
    IN  \/ ~request.hasBody
        \/ ~body.ok
        \/ body.v.k # "object"
        \/ Get(body.v, K_emailContent).k # "string"
        \/ trim(Get(body.v, K_emailContent).s) = <<>>

\* The handler has answered a reply that carried content.
Answered == pc = "done" /\ upstream.kind = "content" /\ upstream.content # <<>>

\* The i-th smallest member of a set of numbers.
Nth(S, i) == CHOOSE x \in S : Cardinality({y \in S : y <= x}) = i

AtMost(n, limit) == IF n < limit THEN n ELSE limit

\* The tasks array the model wrote, where it wrote a JSON object with one.
Reported == Get(modelOutput.doc, K_tasks).a

\* A reply that is well-formed JSON matching the schema: an object with a
\* tasks array of one or more objects with a string emoji and a string text.
MatchesSchema ==
    /\ modelOutput.form = "json"
    /\ modelOutput.doc.k = "object"
    /\ isArray(Get(modelOutput.doc, K_tasks))
    /\ Reported # <<>>
    /\ \A i \in 1..Len(Reported) :
          /\ Reported[i].k = "object"
          /\ Get(Reported[i], K_text).k = "string"
          /\ Get(Reported[i], K_emoji).k = "string"

\* The reported tasks all have an emoji and a text that are not empty.
NoneEmpty ==
    \A i \in 1..Len(Reported) :
        Get(Reported[i], K_emoji).s # <<>> /\ Get(Reported[i], K_text).s # <<>>

Settled(t) == trim(StripFences(t))

\* The reported tasks whose text is not blank.
NonBlank == {i \in 1..Len(Reported) : Settled(Get(Reported[i], K_text).s) # <<>>}

\* A reported task as the response is to carry it.
Canonical(task) ==
    [emoji |-> IF Get(task, K_emoji).s = <<>>
               THEN StrV(PlaceholderEmoji(platform))
               ELSE StrV(StripFences(Get(task, K_emoji).s)),
     text |-> Settled(Get(task, K_text).s)]

Candidate == parsedResponse(upstream.content, platform)

\* Its tasks.
Candidates == Get(Candidate, K_tasks).a

\* C2 as stated: a reply whose parsed value has no tasks field, or one that
\* is no array, the value being an object or not, is answered 500 "AI
\* response format was invalid".
C2_Claim ==
    Answered /\ ~isArray(Get(Candidate, K_tasks)) =>
        response = Error(500, E_Format)

\* An element of a tasks array whose text is absent, empty or blank.
HasNoText(task) ==
    /\ task.k # "null"
    /\ \/ Get(task, K_text) = Undefined
       \/ Get(task, K_text).k = "string" /\ trim(Get(task, K_text).s) = <<>>

\* A parsed value that is an object with a tasks array none of whose
\* elements has a text.
HasNoTasks(parsed) ==
    /\ parsed.k = "object"
    /\ isArray(Get(parsed, K_tasks))
    /\ \A i \in 1..Len(Get(parsed, K_tasks).a) :
          HasNoText(Get(parsed, K_tasks).a[i])

C4_Fences ==
    /\ pc = "done" /\ modelOutput.form = "json"
         => response = Normalize(Enclosed(modelOutput), platform)
    /\ upstream.kind = "content"
         => /\ StripFences(StripFences(upstream.content))
                  = StripFences(upstream.content)
            /\ cleanResponse(cleanResponse(upstream.content))
                  = cleanResponse(upstream.content)

\* C4's case: a reply with a tagged opening fence and a closing one, around
\* a JSON text of several lines that holds a marker itself, answered 200.
C4_Witness ==
    /\ pc = "done" /\ modelOutput.form = "json"
    /\ modelOutput.open = Backticks \o JsonTag \o <<"\n">>
    /\ modelOutput.close = <<"\n">> \o Backticks
    /\ modelOutput.sep = <<"\n">>
    /\ includes(Enclosed(modelOutput), Backticks)
    /\ response.statusCode = 200
    /\ response.tasks[1].text = <<"g", "h">>

\* The non-blank lines of the raw reply.
RawLines ==
    SelectSeq(split(upstream.content, "\n"), LAMBDA line : trim(line) # <<>>)

\* The text a line gives: the line without one leading unit that is neither
\* a word character nor white space and the white space after it, trimmed.
Extracted(line) == trim(DropLeadSymbol(line))

\* The lines that hold a dash, an en dash or a colon and give a text.
Qualifying(lines) ==
    {i \in 1..Len(lines) :
        /\ \E j \in 1..Len(lines[i]) : lines[i][j] \in {"-", "U+2013", ":"}
        /\ Extracted(lines[i]) # <<>>}

\* C5 as stated: when the strict parse fails, the fallback gives one task
\* for each qualifying line, in the order of the lines, and none for any
\* other line.
C5_Claim ==
    Answered /\ ~JSONparse(cleanResponse(upstream.content)).ok
    => LET tasks == Get(Fallback(upstream.content, platform), K_tasks).a
           lines == RawLines
           qualifying == Qualifying(lines)
       IN  /\ Len(tasks) = Cardinality(qualifying)
           /\ \A j \in 1..Len(tasks) :
                 Get(tasks[j], K_text).s
                     = Extracted(lines[Nth(qualifying, j)])

\* C6: a 200 response to a reply holds 1 to 20 tasks, each with a text that
\* is not empty and is its own trimmed form and with an emoji that is not
\* empty, the placeholder where the candidate had none; its projectName is
\* not empty, the placeholder where the candidate had none; and it holds no
\* more tasks than originalTaskCount.
C6_Shape ==
    Answered /\ response.statusCode = 200 =>
      LET parsed == Candidate
          candidates == Get(parsed, K_tasks).a
      IN
        /\ response.kind = "result"
        /\ Len(response.tasks) \in 1..MaxTasks
        /\ Len(response.tasks) <= response.originalTaskCount
        /\ Truthy(response.projectName)
        /\ ~Truthy(Get(parsed, K_projectName))
              => response.projectName = StrV(PlaceholderName)
        /\ \A i \in 1..Len(response.tasks) :
              /\ response.tasks[i].text # <<>>
              /\ trim(response.tasks[i].text) = response.tasks[i].text
              /\ Truthy(response.tasks[i].emoji)
              /\ \E j \in 1..Len(candidates) :
                    LET c == candidates[j]
                    IN  /\ ~GetThrows(c)
                        /\ Get(c, K_text).k = "string"
                        /\ trim(Get(c, K_text).s) = response.tasks[i].text
                        /\ response.tasks[i].emoji =
                              IF Get(c, K_emoji) \in {Undefined, StrV(<<>>)}
                              THEN StrV(PlaceholderEmoji(platform))
                              ELSE Get(c, K_emoji)

\* C6's case: a 200 response of the fallback with 20 tasks of more, the
\* first of a line that had to be trimmed and opened with no symbol.
C6_Witness ==
    /\ Answered /\ response.statusCode = 200
    /\ modelOutput.form = "lines"
    /\ modelOutput.lines[1] = <<" ", "-", "g", " ">>
    /\ response.originalTaskCount > MaxTasks
    /\ Len(response.tasks) = MaxTasks
    /\ response.tasks[1].text = <<"-", "g">>
    /\ response.tasks[1].emoji = StrV(PlaceholderEmoji(platform))
    /\ response.projectName = StrV(PlaceholderName)

\* C7 as stated: a POST whose emailContent is missing or blank is answered
\* 400 "Email content is required", and no call goes out.
C7_Claim ==
    pc = "done" /\ request.httpMethod = "POST" /\ ContentMissing =>
        response = Error(400, E_Content) /\ calls = 0

\* C8: with OPENAI_API_KEY unset no call ever goes out, and a POST with
\* emailContent that is not blank is answered 500 "OpenAI API key not
\* configured".
C8_NoKey ==
    OPENAI_API_KEY = Undefined =>
        /\ calls = 0
        /\ pc \in {"idle", "done"}
        /\ pc = "done" /\ request.httpMethod = "POST" /\ ~ContentMissing
              => response = Error(500, E_Key)

\* C8's case: the key unset and a POST with content answered.
C8_Witness ==
    /\ OPENAI_API_KEY = Undefined
    /\ pc = "done" /\ request.httpMethod = "POST" /\ ~ContentMissing
    /\ response = Error(500, E_Key)

\* C9: a reply of status s that is not a success is answered at once, after
\* the one call, with status s and the message of s: that of 401, of 429,
\* of 403, or the generic one.
C9_UpstreamError ==
    pc = "done" /\ upstream.kind = "error" =>
        /\ calls = 1
        /\ response.kind = "error"
        /\ response.statusCode = upstream.status
        /\ response.error =
              IF upstream.status = 401 THEN "Invalid OpenAI API key"
              ELSE IF upstream.status = 429
              THEN "OpenAI API rate limit exceeded. Please try again in a moment."
              ELSE IF upstream.status = 403
              THEN "OpenAI API access denied. Please check your API key permissions."
              ELSE "Failed to parse email with AI"

\* C9's case: a 403 of the service answered with 403.
C9_Witness ==
    /\ pc = "done" /\ upstream.kind = "error" /\ upstream.status = 403
    /\ response.statusCode = 403

\* How many of the candidates have a text that is not blank.
Kept(candidates) ==
    Cardinality({i \in 1..Len(candidates) :
                    /\ Get(candidates[i], K_text).k = "string"
                    /\ trim(Get(candidates[i], K_text).s) # <<>>})

\* C10 as stated: in a 200 response originalTaskCount is the number of
\* candidates whose text is not blank, so that it is the number of tasks
\* returned when it is at most 20, and 20 tasks are returned when it is
\* more.
C10_Original ==
    Answered /\ response.statusCode = 200 =>
        /\ response.originalTaskCount = Kept(Candidates)
        /\ response.originalTaskCount <= MaxTasks
              => Len(response.tasks) = response.originalTaskCount
        /\ response.originalTaskCount > MaxTasks
              => Len(response.tasks) = MaxTasks

\* C10, amended: in a 200 response originalTaskCount is the number of
\* candidates before the filter, blank ones counted, and the number of tasks
\* returned is that of the candidates whose text is not blank, or 20 when
\* they are more.
C10_Count ==
    Answered /\ response.statusCode = 200 =>
      LET candidates == Candidates
      IN
        /\ response.originalTaskCount = Len(candidates)
        /\ modelOutput.form = "json"
              => response.originalTaskCount = Len(Reported)
        /\ Len(response.tasks) = AtMost(Kept(candidates), MaxTasks)
        /\ Len(response.tasks) <= response.originalTaskCount

\* C10's case: a 200 response that counts a blank task it does not return.
C10_Witness ==
    /\ Answered /\ response.statusCode = 200
    /\ modelOutput.form = "json"
    /\ Len(Reported) = 2
    /\ HasNoText(Reported[1])
    /\ response.originalTaskCount = 2
    /\ Len(response.tasks) = 1

====
